---------------------------- MODULE Spec2Model ----------------------------
(***************************************************************************)
(* SAFT (Semi-Automatic Fluorescence Trace analysis): a model of the main  *)
(* window SAFTMainWindow of src/SAFT.py.                                   *)
(*                                                                         *)
(* The variable `self` is the SAFTMainWindow object: its attributes, the   *)
(* state of the widgets the handlers read and write, the Store, and the    *)
(* heap of Results objects (shallow copies of a Dataset share them).       *)
(* Every handler of the window is an operator from the state before the    *)
(* call to the state after it; a handler that ends in an uncaught Python   *)
(* exception returns the state reached with `exc` set.  A slot called by   *)
(* Qt (a user command, or a signal emitted inside another handler) ends    *)
(* at the slot boundary, where PySide prints the exception and goes on.    *)
(*                                                                         *)
(* Amplitudes and times are integers.  Percentages are integers 0..100.    *)
(***************************************************************************)
EXTENDS Integers, Sequences, FiniteSets, TLC

VARIABLES
    self,   \* the SAFTMainWindow object (attributes, widgets, store, heap)
    op,     \* history: the last command the user issued
    fin,    \* inputs of the function under study (function specifications)
    fout    \* its outputs

vars == <<self, op, fin, fout>>

(***************************************************************************)
(* Bounds of the model.                                                    *)
(***************************************************************************)
MaxDatasets == 3    \* datasets created (loads and extractions attempted)
MaxEdits == 2       \* mouse clicks on the zoom plot
MaxCommands == 5    \* commands of the user in one session
MaxSamples == 3     \* samples of a trace given to a function on its own
MaxTime == 4        \* sample times and cursor positions are 0..MaxTime
MaxAmp == 2         \* amplitudes are 0..MaxAmp
MaxPeaks == 1       \* peaks of one cell given to the histograms on their own
MaxBins == 3        \* bin counts given to the histograms on their own

(***************************************************************************)
(* Sequence and array helpers.                                             *)
(***************************************************************************)
Range(s) == {s[i] : i \in 1..Len(s)}

Max(S) == CHOOSE m \in S : \A e \in S : e <= m

Min(S) == CHOOSE m \in S : \A e \in S : m <= e

Abs(n) == IF n < 0 THEN -n ELSE n

\* the elements of a finite set of integers in ascending order
RECURSIVE SortedSeq(_)
SortedSeq(S) ==
    IF S = {} THEN <<>> ELSE <<Min(S)>> \o SortedSeq(S \ {Min(S)})

\* numpy indexing a[i] with a 0-based index; a negative index counts from the end
At(a, i) == a[((i + Len(a)) % Len(a)) + 1]

\* the elements of s at the positions of `keep`, in order
RECURSIVE SelectIdx(_, _, _)
SelectIdx(s, keep, k) ==
    IF k > Len(s) THEN <<>>
    ELSE (IF k \in keep THEN <<s[k]>> ELSE <<>>) \o SelectIdx(s, keep, k + 1)

\* parallel arrays (times, amplitudes) as one sequence of <<time, amplitude>>
Zip(xs, ys) == [k \in 1..Len(xs) |-> <<xs[k], ys[k]>>]


(***************************************************************************)
(* The input files.  open_file reads every sheet of the chosen workbook    *)
(* into one table per condition: time index, one column per ROI.  A file   *)
(* is named by its stem.  The values are chosen so that the mean and the   *)
(* variance across the two columns are integers.                           *)
(***************************************************************************)
Files == {"foo", "bar"}

Sheets(f) == IF f = "foo" THEN <<"A", "B">> ELSE <<"B">>

Columns == <<"X", "Y">>

TimeAxis == <<0, 1, 2, 3>>

Sheet(f, c) ==
    IF f = "foo" /\ c = "A" THEN [X |-> <<2, 4, 8, 2>>, Y |-> <<2, 2, 2, 2>>]
    ELSE IF f = "foo"       THEN [X |-> <<0, 4, 0, 0>>, Y |-> <<0, 4, 0, 0>>]
    ELSE                         [X |-> <<0, 6, 0, 0>>, Y |-> <<0, 6, 0, 0>>]

Conds == {"A", "B"}

AllROIs == {"Mean", "Variance", "X", "Y"}

\* outcomes of utils.getRandomString(3)
Suffixes == {"abc", "xyz"}

\* names the extraction dialog can give the extracted dataset (gpd.name)
ExtractNames == {"foo", "ext"}

(***************************************************************************)
(* Library numerics the window calls.  baselines.baseline_als and the two  *)
(* scipy peak searches are stood in for by deterministic functions of      *)
(* their arguments: a flat baseline at the floor of the signal, the        *)
(* interior local maxima of sufficient prominence, and the interior local  *)
(* maxima of sufficient height.  A ridge of find_peaks_cwt is a strict     *)
(* relative maximum of a row of the transform, each edge compared with     *)
(* itself, so neither the first nor the last index is ever returned.       *)
(***************************************************************************)
\* self.cwt_SNR_Spin.value(), in tenths
cwt_SNR_Spin == 13

\* self.cwt_w_Spin.value()
cwt_w_Spin == 6

\* np.arange(lo, hi): lo, lo + 1, ..., hi - 1
arange(lo, hi) == [k \in 1..(hi - lo) |-> lo + k - 1]

\* the scales findcwtPeaks gives to the ridge search
cwtWidths(cwt_width) == arange(1, cwt_width)

baseline_als(y) == [k \in 1..Len(y) |-> Min(Range(y))]

Subtract(y, z) == [k \in 1..Len(y) |-> y[k] - z[k]]

\* scsig.find_peaks(ydat, prominence): ascending 0-based indices
find_peaks(ydat, prominence10) ==
    SortedSeq({i \in 1..(Len(ydat) - 2) :
        /\ ydat[i + 1] > ydat[i]
        /\ ydat[i + 1] > ydat[i + 2]
        /\ LET left  == {j \in 1..i : \A k \in j..i : ydat[k] < ydat[i + 1]}
               right == {j \in (i + 2)..Len(ydat) :
                             \A k \in (i + 2)..j : ydat[k] < ydat[i + 1]}
               lbase == Min({ydat[j] : j \in left})
               rbase == Min({ydat[j] : j \in right})
           IN  (ydat[i + 1] - Max({lbase, rbase})) * 10 >= prominence10})

\* scsig.find_peaks_cwt(ydat, widths, min_snr): ascending 0-based indices
find_peaks_cwt(ydat, widths, min_snr10) ==
    SortedSeq({i \in 1..(Len(ydat) - 2) :
        /\ widths # <<>>
        /\ ydat[i + 1] > ydat[i]
        /\ ydat[i + 1] > ydat[i + 2]
        /\ ydat[i + 1] * 10 >= min_snr10})

(***************************************************************************)
(* Traces of a dataset.  A traces object is [tid, file, bl]: its identity, *)
(* the file it was read from, and whether it is the baselined copy made    *)
(* for an extraction (baselines.baselineIterator).                         *)
(***************************************************************************)
NoTraces == [tid |-> 0, file |-> "", bl |-> FALSE]

TraceConds(tr) == IF tr.file = "" THEN {} ELSE Range(Sheets(tr.file))

Column(tr, c, col) ==
    LET raw == Sheet(tr.file, c)[col]
    IN  IF tr.bl THEN Subtract(raw, baseline_als(raw)) ELSE raw

\* traces[c].mean(axis=1)
MeanTrace(tr, c) ==
    [k \in 1..Len(TimeAxis) |->
        (Column(tr, c, "X")[k] + Column(tr, c, "Y")[k]) \div 2]

\* traces[c].var(axis=1): the sample variance of two values
VarTrace(tr, c) ==
    [k \in 1..Len(TimeAxis) |->
        ((Column(tr, c, "X")[k] - Column(tr, c, "Y")[k])
          * (Column(tr, c, "X")[k] - Column(tr, c, "Y")[k])) \div 2]

(***************************************************************************)
(* The peak detectors (SAFTMainWindow.findSimplePeaks, findcwtPeaks,       *)
(* peaksWrapper).  A detector returns [exc, xp, yp]: the exception that    *)
(* ended it ("" when it returned) and the parallel arrays it returned.     *)
(***************************************************************************)
Returned(xp, yp) == [exc |-> "", xp |-> xp, yp |-> yp]

Raised(e) == [exc |-> e, xp |-> <<>>, yp |-> <<>>]

\* a cutoff that takes removeSml as a fraction, not as a percentage
cwtKeepNoPercent(ypeak, ydat, removeSml) ==
    {k \in 1..Len(ypeak) : ypeak[k] > removeSml * Max(Range(ydat))}

\* np.where(ypeak > _cutOff), with _cutOff = removeSml * ydat.max() / 100
cwtKeep(ypeak, ydat, removeSml) ==
    {k \in 1..Len(ypeak) : ypeak[k] * 100 > removeSml * Max(Range(ydat))}

\* "filter out small peaks": xpf, ypf
cwtFilter(xpeak, ypeak, ydat, removeSml) ==
    LET keep == cwtKeep(ypeak, ydat, removeSml)
    IN  Returned(SelectIdx(xpeak, keep, 1), SelectIdx(ypeak, keep, 1))

\* the part of findcwtPeaks after the ridge search: peakcwt holds the
\* ridge indices minus one
cwtFromRidge(xdat, ydat, peakcwt, removeSml) ==
    IF Len(peakcwt) # 0
    THEN cwtFilter([k \in 1..Len(peakcwt) |-> At(xdat, peakcwt[k])],
                   [k \in 1..Len(peakcwt) |-> At(ydat, peakcwt[k])],
                   ydat, removeSml)
    ELSE \* the message of the else branch reads _cutOff, which is not set
         Raised("UnboundLocalError")

\* a detector that takes the samples at the ridge indices themselves
findcwtPeaksNoOffset(xdat, ydat, removeSml) ==
    cwtFromRidge(xdat, ydat,
                 find_peaks_cwt(ydat, cwtWidths(cwt_w_Spin), cwt_SNR_Spin),
                 removeSml)

findcwtPeaks(xdat, ydat, removeSml) ==
    LET ridge == find_peaks_cwt(ydat, cwtWidths(cwt_w_Spin), cwt_SNR_Spin)
    IN  cwtFromRidge(xdat, ydat, [k \in 1..Len(ridge) |-> ridge[k] - 1],
                     removeSml)

findSimplePeaks(xdat, ydat) ==
    IF Len(find_peaks(ydat, cwt_SNR_Spin)) # 0
    THEN \* xdat[peakcwt]: the name peakcwt is not defined in this method
         Raised("NameError")
    ELSE Returned(<<>>, <<>>)

peaksWrapper(simplePeaks, x, y, removeSml) ==
    IF simplePeaks THEN findSimplePeaks(x, y)
    ELSE findcwtPeaks(x, y, removeSml)

(***************************************************************************)
(* dataStructures.Results, Dataset and Store.  A Results object is a table *)
(* (ROI, condition) -> sequence of <<time, amplitude>>; a Dataset holds    *)
(* the heap address of its Results object in resultsDF (0: none).          *)
(***************************************************************************)
\* duplicates of a time collapse, the first is kept
DedupKeepFirst(pk) ==
    SelectIdx(pk, {k \in 1..Len(pk) : \A j \in 1..(k - 1) : pk[j][1] # pk[k][1]}, 1)

\* a new Results object: every cell empty, no reference peak times
NewResults ==
    [cells |-> [rc \in AllROIs \X Conds |-> <<>>], peakTimes |-> <<>>]

addPeaks(R, roi, c, xp, yp) ==
    IF <<roi, c>> \in DOMAIN R.cells
    THEN [R EXCEPT !.cells[<<roi, c>>] = DedupKeepFirst(Zip(xp, yp))]
    ELSE R

getPeaks(R, roi, c) ==
    IF <<roi, c>> \in DOMAIN R.cells THEN R.cells[<<roi, c>>] ELSE <<>>

Times(pk) == [k \in 1..Len(pk) |-> pk[k][1]]

Amps(pk) == [k \in 1..Len(pk) |-> pk[k][2]]

\* Dataset(name)
Dataset(name) ==
    [DSname |-> name, traces |-> NoTraces, resultsDF |-> 0, ROI_list |-> <<>>,
     GUIcontrols |-> {}, isEmpty |-> TRUE]

EmptyStore == [n \in {} |-> Dataset("")]

\* Store.storeSet: insert or overwrite by name
storeSet(store, ds) ==
    [n \in DOMAIN store \cup {ds.DSname} |->
        IF n = ds.DSname THEN ds ELSE store[n]]

(***************************************************************************)
(* The histograms of the plot p2 (SAFTMainWindow.updateHistograms).  An    *)
(* item of the plot is [name, hy]: its legend name and the counts of its   *)
(* bins.  A count vector is held as [bins, counts]: its length and its     *)
(* non-zero counts by bin number (1 is the first bin).  Amplitudes and the *)
(* maximum _max are in one integer unit.                                   *)
(***************************************************************************)
\* np.histogram(a, bins, range=(lo, hi)): the counts hy of equal-width
\* bins; every bin is half-open but the last, which includes hi
np_histogram(a, bins, lo, hi) ==
    LET inRange == {k \in 1..Len(a) : lo <= a[k] /\ a[k] <= hi}
        binOf(k) == IF a[k] = hi THEN bins
                    ELSE ((a[k] - lo) * bins) \div (hi - lo) + 1
    IN  [bins |-> bins,
         counts |-> [b \in {binOf(k) : k \in inRange} |->
                        Cardinality({k \in inRange : binOf(k) = b})]]

\* hy[b - 1], the count of the b-th bin
countAt(hy, b) == IF b \in DOMAIN hy.counts THEN hy.counts[b] ELSE 0

\* np.zeros(_nbins)
zeros(_nbins) == [bins |-> _nbins, counts |-> [b \in {} |-> 0]]

\* sumhy += hy
addCounts(sum, hy) ==
    [bins |-> sum.bins,
     counts |-> [b \in DOMAIN sum.counts \cup DOMAIN hy.counts |->
                    countAt(sum, b) + countAt(hy, b)]]

\* a histogram that moves the amplitudes outside the range into the edge bins
histClipped(_pdata, _nbins, _max) ==
    np_histogram([k \in 1..Len(_pdata) |-> Max({0, Min({_max, _pdata[k]})})],
                 _nbins, 0, _max)

\* hy of hy, hx = np.histogram(_pdata, bins=_nbins, range=(0., _max))
hist(_pdata, _nbins, _max) == np_histogram(_pdata, _nbins, 0, _max)

NoPlots(e) == [exc |-> e, items |-> <<>>, fit |-> "none"]

\* the branch "Separated": one histogram per condition
histSeparated(_nbins, _max, conditions, pdata) ==
    IF _nbins = 0 /\ conditions # <<>> THEN NoPlots("ValueError")
    ELSE [exc |-> "",
          items |-> [i \in 1..Len(conditions) |->
                        [name |-> "Histogram " \o conditions[i],
                         hy |-> hist(pdata[i], _nbins, _max)]],
          fit |-> "none"]

\* a sum that is overwritten by each condition in turn
RECURSIVE sumhyLast(_, _, _, _, _)
sumhyLast(acc, pdata, i, _nbins, _max) ==
    IF i > Len(pdata) THEN acc
    ELSE sumhyLast(hist(pdata[i], _nbins, _max), pdata, i + 1, _nbins, _max)

\* sumhy after the conditions i..Len(pdata) are added to acc
RECURSIVE sumhy(_, _, _, _, _)
sumhy(acc, pdata, i, _nbins, _max) ==
    IF i > Len(pdata) THEN acc
    ELSE sumhy(addCounts(acc, hist(pdata[i], _nbins, _max)),
               pdata, i + 1, _nbins, _max)

\* a fit that is drawn whatever its outcome
fitPlotAlways(fitHistogramsOption, success) ==
    IF fitHistogramsOption
    THEN <<[name |-> "Fit of Gaussians", hy |-> zeros(0)]>>
    ELSE <<>>

\* the fit is drawn only if it succeeded
fitPlot(fitHistogramsOption, success) ==
    IF fitHistogramsOption /\ success
    THEN <<[name |-> "Fit of Gaussians", hy |-> zeros(0)]>>
    ELSE <<>>

\* the fit is run only if the option is on; the state it ended in
fitRun(fitHistogramsOption, success) ==
    IF ~fitHistogramsOption THEN "none"
    ELSE IF success THEN "success" ELSE "failed"

\* the branch "Summed": the sum over the conditions, and its fit.  With no
\* condition the name hx is not set when the sum is plotted.
histSummed(_nbins, _max, _ROI, conditions, pdata, fitHistogramsOption, success) ==
    IF conditions = <<>> THEN NoPlots("UnboundLocalError")
    ELSE IF _nbins = 0 THEN NoPlots("ValueError")
    ELSE [exc |-> "",
          items |-> <<[name |-> "Summed histogram " \o _ROI,
                       hy |-> sumhy(zeros(_nbins), pdata, 1, _nbins, _max)]>>
                    \o fitPlot(fitHistogramsOption, success),
          fit |-> fitRun(fitHistogramsOption, success)]

\* doHistograms: the histogram of every column of the extracted peaks, for
\* the export; pdata[i] holds the amplitudes of the column (_ROI,
\* conditions[i]).  The sum columns are made by HistogramsR.ROI_sum.
doHistograms(_nbins, _max, _ROI, conditions, pdata) ==
    IF _nbins = 0 /\ conditions # <<>> THEN NoPlots("ValueError")
    ELSE [exc |-> "",
          items |-> [i \in 1..Len(conditions) |->
                        [name |-> _ROI \o " " \o conditions[i],
                         hy |-> hist(pdata[i], _nbins, _max)]],
          fit |-> "none"]

\* the items of p2 after updateHistograms; pdata[i] holds the amplitudes of
\* the cell (_ROI, conditions[i]), success is _opti.success
p2Plots(_nbins, _max, _ROI, _hsum, conditions, pdata, fitHistogramsOption, success) ==
    IF _hsum = "Separated"
    THEN histSeparated(_nbins, _max, conditions, pdata)
    ELSE IF _hsum = "Summed"
    THEN histSummed(_nbins, _max, _ROI, conditions, pdata,
                    fitHistogramsOption, success)
    ELSE NoPlots("")

(***************************************************************************)
(* The peak export (SAFTMainWindow.save_peaks).  A table of one condition  *)
(* is [columns, index, data]: the ROI names, the time of each row, and the *)
(* values of each row by column.  A sheet of the workbook is [header,      *)
(* rows]: the cells of its first row and of the rows below it; a cell that *)
(* was never written is None.                                              *)
(***************************************************************************)
None == "None"

\* _resultdf.index.duplicated(keep='first'): a row whose time is the time
\* of a row before it
duplicated(index) ==
    [k \in 1..Len(index) |-> \E j \in 1..(k - 1) : index[j] = index[k]]

\* _resultdf.loc[~mask]
loc(_resultdf, keep) ==
    [columns |-> _resultdf.columns,
     index   |-> SelectIdx(_resultdf.index, keep, 1),
     data    |-> SelectIdx(_resultdf.data, keep, 1)]

notDuplicated(_resultdf) ==
    {k \in 1..Len(_resultdf.index) : ~duplicated(_resultdf.index)[k]}

\* the sheet written from the rows _pe: the column headers, the data rows
\* below them, a first column inserted, and for each row its time in that
\* column, "Time" being written to its first cell once per row
sheetOf(_condi, _pe) ==
    [header |-> <<IF Len(_pe.index) > 0 THEN "Time" ELSE None>>
                \o [n \in 1..Len(_pe.columns) |->
                       _pe.columns[n] \o " " \o _condi],
     rows   |-> [k \in 1..Len(_pe.index) |-> <<_pe.index[k]>> \o _pe.data[k]]]

\* the body of the loop over _output.items()
peakSheet(_condi, _resultdf) ==
    sheetOf(_condi, loc(_resultdf, notDuplicated(_resultdf)))

(***************************************************************************)
(* The window.  Fields named after an attribute of SAFTMainWindow hold     *)
(* that attribute; fields named after a widget hold its current value      *)
(* (datasetCBx: the current index into datasetList_CBX, which mirrors the  *)
(* items of the combo box).  heap[i] is the Results object at address i.   *)
(* scatter and curve are the data of the marker item and of the trace      *)
(* item of the zoom plot p3, crosshair whether the two lines of the        *)
(* crosshair are among its items.  exc is the exception that ended the     *)
(* call in progress, err (history) the last one printed during the last    *)
(* command,                                                                *)
(* conditionItems the items of p3Selection and refSelection, ret the       *)
(* value the last call of updateDatasetComboBox returned ("" for False),   *)
(* lastReg (history) the last registration of a duplicate name.            *)
(***************************************************************************)
\* the controls manualPeakToggle disables and enables
ToggledControls ==
    {"peak_CB", "SGsmoothing_CB", "cwt_SNR_Spin", "cwt_w_Spin",
     "auto_bs_lam_slider", "auto_bs_P_slider", "autobs_Box", "removeSml_Spin"}

\* the controls whose change runs the automatic detection (ROI_Change)
DetectionControls == ToggledControls \cup {"SGWin_Spin"}

\* history: the parameters the baseline estimator was last called with in
\* the command; Unset if the two attributes were read before any
\* setBaselineParams
NotEstimated == [kind |-> "none"]

Unset == [kind |-> "unset"]

NoReg == [orig |-> "", resolved |-> "", old |-> 0, new |-> 0]

\* self.gpd before the first extraction dialog: the attribute is not set
NoDialog == [made |-> FALSE, conds |-> <<>>, pk_extracted_by_condi |-> NewResults]

\* a new extractPeaksDialog: it holds no extracted peaks
NewDialog == [made |-> TRUE, conds |-> <<>>, pk_extracted_by_condi |-> NewResults]

InitSelf ==
    [autoPeaks |-> TRUE, wasManualOnce |-> FALSE, simplePeaks |-> FALSE,
     noCrosshair |-> TRUE, crosshair |-> FALSE, dataLoaded |-> FALSE,
     noPeaks |-> TRUE, hasBaselineParams |-> FALSE, cA |-> FALSE,
     conditions |-> <<>>, datasetList_CBX |-> <<"-">>,
     store |-> EmptyStore, workingDataset |-> Dataset("Empty"),
     heap |-> <<>>, nextId |-> 1,
     manualChecked |-> FALSE, radiosEnabled |-> TRUE,
     enabled |-> [c \in DetectionControls |-> TRUE],
     analysisBtnEnabled |-> FALSE,
     datasetCBx |-> 1, ROI_selectBox |-> "None",
     p3Selection |-> "-", refSelection |-> "-", conditionItems |-> <<"-">>,
     peak_CB |-> "wavelet", removeSml_Spin |-> 30, autobs_Box |-> "Auto",
     auto_bs_lam_slider |-> 6, auto_bs_P_slider |-> 3,
     auto_bs_lam |-> 0, auto_bs_P |-> 0, bsUsed |-> NotEstimated,
     histo_NBin_Spin |-> 100, histo_Max_Spin |-> 1,
     sum_hist |-> "Separated", fitHistogramsOption |-> FALSE, p2 |-> <<>>,
     saveHistogramsOption |-> FALSE, gpd |-> NoDialog,
     scatter |-> <<>>, curve |-> [x |-> <<>>, y |-> <<>>],
     exc |-> "", err |-> "", ret |-> "", lastReg |-> NoReg, edits |-> 0,
     commands |-> 0]

Exc(s, e) == [s EXCEPT !.exc = e]

\* the end of a slot: PySide prints the exception and the emitter goes on
Swallow(s) == [s EXCEPT !.err = IF s.exc # "" THEN s.exc ELSE @, !.exc = ""]

\* a command of the user: the slot h has run from state s
Command(s) ==
    [s EXCEPT !.err = "", !.commands = @ + 1, !.bsUsed = NotEstimated]

currentDataset(s) == s.datasetList_CBX[s.datasetCBx]

workingResults(s) == s.heap[s.workingDataset.resultsDF]

cell(s, roi, c) == getPeaks(workingResults(s), roi, c)

\* the amplitudes of the cells of the displayed ROI, one per condition
peakData(s) ==
    [i \in 1..Len(s.conditions) |->
        Amps(cell(s, s.ROI_selectBox, s.conditions[i]))]

\* p2 is cleared and takes the new items; histogram fitting is off after
\* construction and its checkbox is not among the commands of a session,
\* so no fit result is read here
histogramsPlotted(s, r) == [s EXCEPT !.p2 = r.items, !.exc = r.exc]

updateHistograms(s) ==
    histogramsPlotted(s,
        p2Plots(s.histo_NBin_Spin, s.histo_Max_Spin, s.ROI_selectBox,
                s.sum_hist, s.conditions, peakData(s),
                s.fitHistogramsOption, FALSE))

manualPeakToggle(s) ==
    IF s.manualChecked
    THEN [s EXCEPT !.autoPeaks = FALSE, !.wasManualOnce = TRUE,
                   !.enabled = [c \in DOMAIN @ |->
                                   IF c \in ToggledControls THEN FALSE ELSE @[c]],
                   !.crosshair = IF s.noCrosshair THEN TRUE ELSE @,
                   !.noCrosshair = FALSE]
    ELSE IF s.wasManualOnce
    THEN [s EXCEPT !.autoPeaks = TRUE,
                   !.enabled = [c \in DOMAIN @ |->
                                   IF c \in ToggledControls THEN TRUE ELSE @[c]],
                   !.crosshair = IF ~s.noCrosshair THEN FALSE ELSE @,
                   !.noCrosshair = TRUE]
    ELSE s

\* the asymmetry p is held in units of 10^-9
\* the range of auto_bs_lam_slider
LamSliderMin == 2

LamSliderMax == 9

\* the range of auto_bs_P_slider
PSliderMin == 0

PSliderMax == 20

\* 1.0 in the unit of p
One == 1000000000

\* 10 ** (-k / 5) for k = 0..4, in the unit of p
TenToMinusFifths == <<1000000000, 630957344, 398107171, 251188643, 158489319>>

RECURSIVE pow10(_)
pow10(n) == IF n = 0 THEN 1 ELSE 10 * pow10(n - 1)

\* self.auto_bs_lam = 10 ** slider value
auto_bs_lam(v) == pow10(v)

\* self.auto_bs_P = 10 ** (- slider value / 5)
auto_bs_P(v) == TenToMinusFifths[(v % 5) + 1] \div pow10(v \div 5)

\* the positions the two sliders take in a session: the ones they are set
\* to at construction, and one more each
LamSliderValues == {6, 7}

PSliderValues == {3, 4}

Estimated(s) ==
    [kind |-> "estimated", lam |-> s.auto_bs_lam, p |-> s.auto_bs_P]

\* baseline_als or baselineIterator is called with self.auto_bs_lam and
\* self.auto_bs_P
estimate(s) ==
    IF ~s.hasBaselineParams
    THEN Exc([s EXCEPT !.bsUsed = Unset], "AttributeError")
    ELSE [s EXCEPT !.bsUsed = Estimated(s)]

\* setBaselineParams sets self.auto_bs_lam and self.auto_bs_P
setBaselineParams(s) ==
    [s EXCEPT !.hasBaselineParams = TRUE,
              !.auto_bs_lam = auto_bs_lam(s.auto_bs_lam_slider),
              !.auto_bs_P = auto_bs_P(s.auto_bs_P_slider)]

\* a setBaselineParams that takes the sliders in Lock as well
paramsFromGUIAlways(s) == setBaselineParams(s)

\* the parameters are taken from the GUI unless the setting is "Lock"
paramsFromGUI(s) ==
    IF s.autobs_Box = "Auto" THEN setBaselineParams(s) ELSE s

\* the trace ROI_Change takes for a ROI of one condition, after the
\* baseline is removed if bs
roiTrace(tr, c, roi, bs) ==
    LET y == IF roi = "Mean" THEN MeanTrace(tr, c)
             ELSE IF roi = "Variance" THEN VarTrace(tr, c)
             ELSE Column(tr, c, roi)
    IN  IF bs THEN Subtract(y, baseline_als(y)) ELSE y

\* the peaks det of trace y go into the cell (automatic mode) and, for the
\* condition of the zoom plot, into its markers
ROI_put(s, _condi, _ROI, y, det) ==
    IF det.exc # "" THEN Exc(s, det.exc)
    ELSE [s EXCEPT
             !.heap[s.workingDataset.resultsDF] =
                 IF s.autoPeaks THEN addPeaks(@, _ROI, _condi, det.xp, det.yp)
                 ELSE @,
             !.scatter = IF s.p3Selection = _condi THEN Zip(det.xp, det.yp)
                         ELSE @,
             !.curve = IF s.p3Selection = _condi THEN [x |-> TimeAxis, y |-> y]
                       ELSE @]

\* the peaks of one condition: found in the trace, or read from the cell
ROI_peaks(s, _condi, _ROI, y) ==
    ROI_put(s, _condi, _ROI, y,
            IF s.autoPeaks
            THEN peaksWrapper(s.simplePeaks, TimeAxis, y, s.removeSml_Spin)
            ELSE Returned(Times(cell(s, _ROI, _condi)),
                          Amps(cell(s, _ROI, _condi))))

\* a loop that removes the baseline of the variance trace as well
RECURSIVE ROI_loopBaselineAll(_, _, _)
ROI_loopBaselineAll(s, i, auto_bs) ==
    IF s.exc # "" THEN s
    ELSE IF i > Len(s.conditions) THEN updateHistograms(s)
    ELSE IF s.conditions[i] \notin TraceConds(s.workingDataset.traces)
         THEN Exc(s, "KeyError")
    ELSE IF s.ROI_selectBox = "" THEN s
    ELSE IF s.ROI_selectBox \notin {"Mean", "Variance"} \cup Range(Columns)
         THEN Exc(s, "KeyError")
    ELSE IF auto_bs /\ estimate(s).exc # "" THEN estimate(s)
    ELSE ROI_loopBaselineAll(
             ROI_peaks(IF auto_bs THEN estimate(s) ELSE s,
                       s.conditions[i], s.ROI_selectBox,
                       roiTrace(s.workingDataset.traces, s.conditions[i],
                                s.ROI_selectBox, auto_bs)),
             i + 1, auto_bs)

\* the loop of ROI_Change over self.conditions, from the i-th on
RECURSIVE ROI_loop(_, _, _)
ROI_loop(s, i, auto_bs) ==
    LET _ROI == s.ROI_selectBox
        tr   == s.workingDataset.traces
        bs   == auto_bs /\ _ROI # "Variance"
    IN  IF s.exc # "" THEN s
        ELSE IF i > Len(s.conditions) THEN updateHistograms(s)
        ELSE IF s.conditions[i] \notin TraceConds(tr) THEN Exc(s, "KeyError")
        ELSE IF _ROI = "" THEN s
        ELSE IF _ROI \notin {"Mean", "Variance"} \cup Range(Columns)
             THEN Exc(s, "KeyError")
        ELSE IF bs /\ estimate(s).exc # "" THEN estimate(s)
        ELSE ROI_loop(ROI_peaks(IF bs THEN estimate(s) ELSE s,
                                s.conditions[i], _ROI,
                                roiTrace(tr, s.conditions[i], _ROI, bs)),
                      i + 1, bs)

\* an update cycle that subtracts the baseline from the stored traces
ROI_ChangeInPlace(s) ==
    IF ~s.dataLoaded THEN s
    ELSE ROI_loop(paramsFromGUI(
                      [s EXCEPT !.simplePeaks = (s.peak_CB = "simple"),
                                !.workingDataset.traces.bl =
                                    @ \/ s.autobs_Box # "None"]),
                  1, s.autobs_Box # "None")

\* pauseUpdates is set only inside autoPeaks_GUI_switch, see there
ROI_Change(s) ==
    IF ~s.dataLoaded THEN s
    ELSE ROI_loop(paramsFromGUI(
                      [s EXCEPT !.simplePeaks = (s.peak_CB = "simple")]),
                  1, s.autobs_Box # "None")

\* the current item of ROI_selectBox changes: its slot is ROI_Change
ROI_setCurrent(s, r) == Swallow(ROI_Change([s EXCEPT !.ROI_selectBox = r]))

ROI_addItems(s) ==
    IF Len(s.workingDataset.ROI_list) > 0
    THEN ROI_setCurrent(s, s.workingDataset.ROI_list[1])
    ELSE s

\* ROI_selectBox.clear() and .addItems(ROI_list)
updateROI_list_Box(s) ==
    ROI_addItems(IF s.ROI_selectBox # "" THEN ROI_setCurrent(s, "") ELSE s)

\* "Disable": autobs_Box.setValue('None') runs ROI_Change, which returns at
\* once because pauseUpdates is set around it
autoPeaks_GUI_switch(s, v) ==
    IF v = "Disable"
    THEN manualPeakToggle([s EXCEPT !.autobs_Box = "None",
                                    !.manualChecked = TRUE,
                                    !.radiosEnabled = FALSE,
                                    !.autoPeaks = FALSE])
    ELSE IF v = "Enable"
    THEN manualPeakToggle([s EXCEPT !.radiosEnabled = TRUE])
    ELSE s

\* as if every dataset carried the directive autoPeaks = "Disable"
applyDisableAlways(s, g) == autoPeaks_GUI_switch(s, "Disable")

\* the directives of the retrieved dataset, in turn
RECURSIVE applyGUIcontrols(_, _)
applyGUIcontrols(s, g) ==
    IF g = {} THEN s
    ELSE LET kv == CHOOSE e \in g : TRUE
         IN  applyGUIcontrols(IF kv[1] = "autoPeaks"
                              THEN autoPeaks_GUI_switch(s, kv[2]) ELSE s,
                              g \ {kv})

\* Store.retrieveWorkingSet
retrieveWorkingSet(store, name) == store[name]

\* datasetChange once the working dataset is archived
datasetRetrieve(s) ==
    IF currentDataset(s) \notin DOMAIN s.store THEN Exc(s, "NotFoundError")
    ELSE ROI_Change(updateROI_list_Box(
             applyGUIcontrols(
                 [s EXCEPT !.workingDataset =
                               retrieveWorkingSet(s.store, currentDataset(s))],
                 s.store[currentDataset(s)].GUIcontrols)))

\* a switch that does not archive the working dataset
datasetChangeNoArchive(s) ==
    IF currentDataset(s) # s.workingDataset.DSname
    THEN datasetRetrieve(s)
    ELSE s

datasetChange(s) ==
    IF currentDataset(s) # s.workingDataset.DSname
    THEN datasetRetrieve([s EXCEPT !.store = storeSet(@, s.workingDataset)])
    ELSE s

\* the first item of the combo box with this text (0: none)
findText(items, t) ==
    IF t \in Range(items) THEN Min({i \in 1..Len(items) : items[i] = t}) ELSE 0

\* datasetCBx.setValue: the slot datasetChange runs if the index changes
setValue(s, name) ==
    IF findText(s.datasetList_CBX, name) \in {0, s.datasetCBx} THEN s
    ELSE Swallow(datasetChange(
             [s EXCEPT !.datasetCBx = findText(s.datasetList_CBX, name)]))

\* utils.getRandomString(3) returned _s.  The combo box is a pg.ComboBox,
\* which requires its item strings to be unique: whether addItem raises on
\* a second item of the same text or takes it is the library's choice,
\* given here by dup ("raise" or "accept").
updateDatasetComboBox(s, _name, _s, dup) ==
    IF s.datasetList_CBX = <<"-">>
    THEN Swallow(datasetChange([s EXCEPT !.datasetList_CBX = <<_name>>,
                                         !.datasetCBx = 1, !.ret = ""]))
    ELSE IF _name \in Range(s.datasetList_CBX)
    THEN IF (_name \o _s) \in Range(s.datasetList_CBX) /\ dup = "raise"
         THEN Exc(s, "Exception")
         ELSE [s EXCEPT !.datasetList_CBX = Append(@, _name \o _s),
                        !.ret = _name \o _s]
    ELSE [s EXCEPT !.datasetList_CBX = Append(@, _name), !.ret = ""]

\* the zoom plot takes trace y and the peaks det; the click parser cA is
\* created after them
plotPeaks(s, y, det) ==
    IF det.exc # ""
    THEN [s EXCEPT !.curve = [x |-> TimeAxis, y |-> y], !.exc = det.exc]
    ELSE [s EXCEPT !.curve = [x |-> TimeAxis, y |-> y],
                   !.scatter = Zip(det.xp, det.yp), !.cA = TRUE]

\* only the condition shown in the zoom plot leaves state behind: its mean
\* trace, and the peaks found in it or no peaks
plotCondition(s, y) ==
    plotPeaks(s, y,
              IF s.autoPeaks
              THEN peaksWrapper(s.simplePeaks, TimeAxis, y, s.removeSml_Spin)
              ELSE Returned(<<>>, <<>>))

\* p3.clear() removes every item of the zoom plot, the two lines of the
\* crosshair among them
plotNewData(s) ==
    IF s.p3Selection \notin Range(s.conditions)
    THEN [s EXCEPT !.scatter = <<>>, !.curve = [x |-> <<>>, y |-> <<>>],
                   !.crosshair = FALSE]
    ELSE plotCondition([s EXCEPT !.scatter = <<>>,
                                 !.curve = [x |-> <<>>, y |-> <<>>],
                                 !.crosshair = FALSE],
                       MeanTrace(s.workingDataset.traces, s.p3Selection))

\* the dataset the selector shows under a name: the working dataset, or the
\* archived one
Retrieve(s, n) ==
    IF s.workingDataset.DSname = n THEN s.workingDataset
    ELSE IF n \in DOMAIN s.store THEN s.store[n]
    ELSE Dataset("")

\* history: name _name was taken in state pre, the new dataset got name s.ret
registered(s, pre, _name, new) ==
    IF s.ret = "" THEN s
    ELSE [s EXCEPT !.lastReg = [orig |-> _name, resolved |-> s.ret,
                                old |-> Retrieve(pre, _name).traces.tid,
                                new |-> new]]

\* open_file up to the name: the working dataset is archived, then takes
\* the traces of file f and its stem as name
open_file_traces(s, f) ==
    [s EXCEPT !.conditions = Sheets(f), !.nextId = @ + 1,
              !.store = IF s.workingDataset.isEmpty THEN @
                        ELSE storeSet(@, s.workingDataset),
              !.workingDataset.traces = [tid |-> s.nextId, file |-> f,
                                         bl |-> FALSE],
              !.workingDataset.isEmpty = FALSE,
              !.workingDataset.DSname = f]

\* the resolved name and the ROI list
open_file_name(s) ==
    [s EXCEPT !.workingDataset.DSname = IF s.ret # "" THEN s.ret ELSE @,
              !.workingDataset.ROI_list = <<"Mean", "Variance">> \o Columns]

\* a change of the current item of p3Selection: its slot is ROI_Change
p3_setCurrent(s, c) == Swallow(ROI_Change([s EXCEPT !.p3Selection = c]))

\* the two condition selectors are refilled and set to the last condition
open_file_selectors(s) ==
    p3_setCurrent(
        [p3_setCurrent(p3_setCurrent(s, ""), s.conditions[1])
            EXCEPT !.conditionItems = s.conditions,
                   !.refSelection = s.conditions[Len(s.conditions)]],
        s.conditions[Len(s.conditions)])

\* a new Results object for the working dataset
open_file_results(s) ==
    [s EXCEPT !.heap = Append(@, NewResults),
              !.workingDataset.resultsDF = Len(s.heap) + 1]

open_file_update(s) ==
    IF s.exc # "" THEN s ELSE ROI_Change([s EXCEPT !.dataLoaded = TRUE])

\* open_file after updateDatasetComboBox
open_file_rest(s, pre, f) ==
    IF s.exc # "" THEN s
    ELSE open_file_update(plotNewData(open_file_results(open_file_selectors(
             updateROI_list_Box(
                 registered(open_file_name(s), pre, f, pre.nextId))))))

\* the file dialog returned file f
open_file(s, f, _s, dup) ==
    open_file_rest(updateDatasetComboBox(open_file_traces(s, f), f, _s, dup),
                   s, f)

\* a missing value of a pandas Series of times (times are 0 and above)
NaN == -1

\* sorted, with v after the values that are not above it
insertSorted(sorted, v) ==
    SelectSeq(sorted, LAMBDA e : e <= v) \o <<v>>
        \o SelectSeq(sorted, LAMBDA e : e > v)

RECURSIVE sortFrom(_, _, _)
sortFrom(s, k, acc) ==
    IF k > Len(s) THEN acc ELSE sortFrom(s, k + 1, insertSorted(acc, s[k]))

\* Series.sort_values(ascending=True): a new Series, the missing values last
sort_values(s) ==
    sortFrom(SelectSeq(s, LAMBDA e : e # NaN), 1, <<>>)
        \o SelectSeq(s, LAMBDA e : e = NaN)

\* a dropna that leaves the Series as it is
dropnaKeep(s) == s

\* Series.dropna(inplace=True)
dropna(s) == SelectSeq(s, LAMBDA e : e # NaN)

\* _sorted_peak_t of extractAllPeaks, from the times getPeaks returned
sortedPeakTimes(_peak_t) == dropna(sort_values(_peak_t))

\* extractPeaksDialog: at each reference peak time, the amplitude of every
\* ROI of every condition
addPeaksExtracted(tr, _peak_t) ==
    [cells |-> [rc \in AllROIs \X Conds |->
        IF rc[1] \in Range(Columns) /\ rc[2] \in TraceConds(tr)
        THEN [k \in 1..Len(_peak_t) |->
                 <<_peak_t[k], Column(tr, rc[2], rc[1])[_peak_t[k] + 1]>>]
        ELSE <<>>],
     peakTimes |-> <<>>]

\* an extracted dataset that carries no directive
extractStoreNoDirective(s, pre, DSname, tracedata, _sorted_peak_t) ==
    [s EXCEPT !.heap = Append(@, addPeaksExtracted(tracedata, _sorted_peak_t)),
              !.store = storeSet(@,
                  [Dataset(DSname) EXCEPT
                       !.resultsDF = Len(s.heap) + 1,
                       !.ROI_list = Columns,
                       !.traces = tracedata, !.isEmpty = FALSE]),
              !.nextId = @ + 1]

\* the dataset made of the dialog's results, stored under the name DSname
extractStore(s, pre, DSname, tracedata, _sorted_peak_t) ==
    [s EXCEPT !.heap = Append(@, addPeaksExtracted(tracedata, _sorted_peak_t)),
              !.store = storeSet(@,
                  [Dataset(DSname) EXCEPT
                       !.GUIcontrols = {<<"autoPeaks", "Disable">>},
                       !.resultsDF = Len(s.heap) + 1,
                       !.ROI_list = Columns,
                       !.traces = tracedata, !.isEmpty = FALSE]),
              !.nextId = @ + 1]

\* extractAllPeaks after updateDatasetComboBox
extractRest(s, pre, name) ==
    IF s.exc # "" THEN s
    ELSE setValue(
             registered(
                 extractStore(s, pre, IF s.ret # "" THEN s.ret ELSE name,
                     [tid |-> pre.nextId,
                      file |-> pre.workingDataset.traces.file,
                      bl |-> pre.workingDataset.traces.bl
                             \/ pre.autobs_Box # "None"],
                     sortedPeakTimes(Times(cell(pre, "Mean", pre.refSelection)))),
                 pre, name, pre.nextId),
             IF s.ret # "" THEN s.ret ELSE name)

\* the dialog that was accepted: it holds the peaks it extracted from the
\* dataset it was given, one table per condition
acceptedDialog(s) ==
    [made |-> TRUE, conds |-> Sheets(s.workingDataset.traces.file),
     pk_extracted_by_condi |->
         addPeaksExtracted(s.workingDataset.traces,
             sortedPeakTimes(Times(cell(s, "Mean", s.refSelection))))]

\* extractAllPeaks up to the baseline of the copy of the working dataset:
\* a new dialog, then baselineIterator unless the setting is "None"
extractBaseline(s) ==
    IF s.autobs_Box = "None" THEN [s EXCEPT !.gpd = NewDialog]
    ELSE estimate(paramsFromGUI([s EXCEPT !.gpd = NewDialog]))

\* the reference peak times, sorted, become the peakTimes of the Results
\* of the working dataset; this is done before the dialog is shown
extractReference(s) ==
    [s EXCEPT !.heap[s.workingDataset.resultsDF].peakTimes =
                  sortedPeakTimes(Times(cell(s, "Mean", s.refSelection)))]

\* extractAllPeaks once the dialog was accepted
extractAccepted(s, pre, name, _s, dup) ==
    extractRest(
        updateDatasetComboBox(
            [s EXCEPT !.gpd = acceptedDialog(pre),
                      !.noPeaks = FALSE, !.analysisBtnEnabled = TRUE],
            name, _s, dup),
        pre, name)

\* an extraction that removes the baseline of the traces of the working
\* dataset themselves
extractAllPeaksInPlace(s, accepted, name, _s, dup) ==
    LET b == extractBaseline(s)
        inPlace == [b EXCEPT !.workingDataset.traces.bl =
                                 @ \/ s.autobs_Box # "None"]
    IN  IF b.exc # "" THEN b
        ELSE IF ~accepted THEN extractReference(inPlace)
        ELSE extractAccepted(extractReference(inPlace), s, name, _s, dup)

\* the dialog was accepted or not, with name gpd.name
extractAllPeaks(s, accepted, name, _s, dup) ==
    LET b == extractBaseline(s)
    IN  IF b.exc # "" THEN b
        ELSE IF ~accepted THEN extractReference(b)
        ELSE extractAccepted(extractReference(b), s, name, _s, dup)

\* clickAlgebra.onClick with dataLocked: the marker at sample k of the
\* displayed trace is removed, or added if there is none
onClick(s, k) ==
    LET hit == {j \in 1..Len(s.scatter) : s.scatter[j][1] = s.curve.x[k]}
    IN  [s EXCEPT !.scatter =
            IF hit # {} THEN SelectIdx(@, (1..Len(@)) \ hit, 1)
            ELSE Append(@, <<s.curve.x[k], s.curve.y[k]>>)]

\* a manualUpdate that writes the markers into the cell of every condition
manualWriteAll(s, pre) ==
    IF s.exc # "" THEN s
    ELSE [s EXCEPT !.heap[s.workingDataset.resultsDF] =
             [cells |-> [rc \in DOMAIN @.cells |->
                            IF rc[1] = pre.ROI_selectBox
                            THEN DedupKeepFirst(pre.scatter)
                            ELSE @.cells[rc]],
              peakTimes |-> @.peakTimes]]

\* manualUpdate after updateHistograms
manualWrite(s, pre) ==
    IF s.exc # "" THEN s
    ELSE IF pre.p3Selection \in Range(pre.conditions)
    THEN [s EXCEPT !.heap[s.workingDataset.resultsDF] =
             addPeaks(@, pre.ROI_selectBox, pre.p3Selection,
                      Times(pre.scatter), Amps(pre.scatter))]
    ELSE s

manualUpdate(s) == manualWrite(updateHistograms(s), s)

\* a click on sample k of the zoom plot; the change of the markers emits
\* sigPlotChanged, whose slot is manualUpdate
clickRelay(s, k) ==
    IF s.autoPeaks THEN s
    ELSE IF ~s.cA THEN Exc(s, "AttributeError")
    ELSE Swallow(manualUpdate(onClick(s, k)))

\* no input drawn, nothing left behind by a command
NoInput == [kind |-> "none"]

\* the order of the ROI columns and of the conditions in a Results object
ROIOrder == <<"Mean", "Variance", "X", "Y">>

ConditionOrder == <<"A", "B">>

\* the amplitude of the peak of a cell at time t, None if it has none
valueAt(pk, t) ==
    IF t \in Range(Times(pk))
    THEN pk[Min({k \in 1..Len(pk) : pk[k][1] = t})][2]
    ELSE None

\* utils.decomposeRDF: the table of condition c, a column for each ROI
\* with peaks and a row for each of their times
decomposedTable(R, c) ==
    LET cols == SelectSeq(ROIOrder, LAMBDA r : R.cells[<<r, c>>] # <<>>)
        ix == SortedSeq(UNION {Range(Times(R.cells[<<r, c>>])) :
                                   r \in Range(ROIOrder)})
    IN  [columns |-> cols, index |-> ix,
         data |-> [k \in 1..Len(ix) |->
                      [n \in 1..Len(cols) |->
                          valueAt(R.cells[<<cols[n], c>>], ix[k])]]]

\* the sheets of the peak export, one per condition of _output
peakSheets(R) ==
    [i \in 1..Len(ConditionOrder) |->
        [name |-> ConditionOrder[i],
         sheet |-> peakSheet(ConditionOrder[i],
                             decomposedTable(R, ConditionOrder[i]))]]

\* the amplitudes of the columns of ROI roi in the tables of the dialog
extractedAmps(gpd, roi) ==
    [i \in 1..Len(gpd.conds) |->
        Amps(gpd.pk_extracted_by_condi.cells[<<roi, gpd.conds[i]>>])]

\* the columns of self.hDF after doHistograms, ROI by ROI of the tables of
\* the last extraction dialog
RECURSIVE hDF(_, _, _)
hDF(s, n, acc) ==
    IF acc.exc # "" \/ n > Len(Columns) THEN acc
    ELSE LET r == doHistograms(s.histo_NBin_Spin, s.histo_Max_Spin,
                               Columns[n], s.gpd.conds,
                               extractedAmps(s.gpd, Columns[n]))
         IN  hDF(s, n + 1, [exc |-> r.exc, items |-> acc.items \o r.items])

\* save_histograms: the columns of the sheet "Histograms"
save_histograms(s) ==
    IF ~s.gpd.made THEN [exc |-> "AttributeError", items |-> <<>>]
    ELSE hDF(s, 1, [exc |-> "", items |-> <<>>])

NoWorkbook == [kind |-> "nothing"]

\* the workbook wb.save writes
workbook(s, h) ==
    [kind |-> "workbook", sheets |-> peakSheets(workingResults(s)),
     histograms |-> h.items, withHistograms |-> s.saveHistogramsOption]

\* save_peaks, the file dialog having returned filename ("": cancelled):
\* the window after it, and the file written
save_peaks(s, filename) ==
    IF s.noPeaks \/ filename = "" THEN [s |-> s, wb |-> NoWorkbook]
    ELSE IF s.workingDataset.resultsDF = 0
    THEN [s |-> s, wb |-> [kind |-> "workbook", sheets |-> <<>>,
                           histograms |-> <<>>, withHistograms |-> FALSE]]
    ELSE IF ~s.saveHistogramsOption
    THEN [s |-> s, wb |-> workbook(s, [exc |-> "", items |-> <<>>])]
    ELSE IF save_histograms(s).exc # ""
    THEN [s |-> Exc(s, save_histograms(s).exc), wb |-> NoWorkbook]
    ELSE [s |-> s, wb |-> workbook(s, save_histograms(s))]

saveHistogramsLogic(s, checked) == [s EXCEPT !.saveHistogramsOption = checked]

\* getGroups and launchHistogramFit: the dialog is made, given the
\* decomposed Results of the working dataset, and shown
launchDialog(s, dialog) ==
    IF s.workingDataset.resultsDF = 0
    THEN [s |-> Exc(s, "AttributeError"), shown |-> NoInput]
    ELSE [s |-> s,
          shown |-> [kind |-> "dialog", dialog |-> dialog,
                     name |-> s.workingDataset.DSname]]

getGroups(s) == launchDialog(s, "groupPeakDialog")

launchHistogramFit(s) == launchDialog(s, "histogramFitDialog")

(***************************************************************************)
(* The commands of the user.  Each is one slot run to its end.             *)
(***************************************************************************)
ComboBoxDup == {"raise", "accept"}

\* utils.getRandomString is called only for a name that is in the list
SuffixesFor(s, _name) ==
    IF _name \in Range(s.datasetList_CBX) THEN Suffixes ELSE {""}

\* the combo box is given a second item of one text only if the name and
\* the suffixed name are both in the list
ComboBoxDupFor(s, _name, _s) ==
    IF _name \in Range(s.datasetList_CBX)
       /\ (_name \o _s) \in Range(s.datasetList_CBX)
    THEN ComboBoxDup ELSE {"accept"}

Init ==
    /\ self = InitSelf
    /\ op = "init"
    /\ fin = NoInput
    /\ fout = NoInput

\* a command that leaves out behind it: a file written, a dialog shown
StepOut(cmd, s, out) ==
    /\ self.commands < MaxCommands
    /\ self' = Swallow(s)
    /\ op' = cmd
    /\ fout' = out
    /\ UNCHANGED fin

Step(cmd, s) == StepOut(cmd, s, NoInput)

\* File > Open
OpenFile ==
    \E f \in Files :
      \E _s \in SuffixesFor(self, f) :
        \E dup \in ComboBoxDupFor(self, f, _s) :
        /\ self.nextId <= MaxDatasets
        /\ Step("open_file", open_file(Command(self), f, _s, dup))

\* the user picks another item of the dataset selector
DatasetSelect ==
    \E i \in 1..Len(self.datasetList_CBX) :
        /\ i # self.datasetCBx
        /\ Step("datasetCBx", datasetChange([Command(self) EXCEPT !.datasetCBx = i]))

\* the "Extract peaks from all ROIs" button and its dialog
ExtractAllPeaks ==
    \E accepted \in BOOLEAN :
      \E name \in IF accepted THEN ExtractNames ELSE {""} :
        \E _s \in SuffixesFor(self, name) :
          \E dup \in ComboBoxDupFor(self, name, _s) :
        /\ self.workingDataset.resultsDF # 0
        /\ self.nextId <= MaxDatasets
        /\ Step("extractAllPeaks",
                extractAllPeaks(Command(self), accepted, name, _s, dup))

\* a click on one of the two radio buttons of the peak-finding mode
ModeSelect ==
    \E manual \in BOOLEAN :
        /\ self.radiosEnabled
        /\ manual # self.manualChecked
        /\ Step("manualPeakToggle",
                manualPeakToggle([Command(self) EXCEPT !.manualChecked = manual]))

ROISelect ==
    \E r \in Range(self.workingDataset.ROI_list) :
        /\ r # self.ROI_selectBox
        /\ Step("ROI_selectBox", ROI_Change([Command(self) EXCEPT !.ROI_selectBox = r]))

P3Select ==
    \E c \in Range(self.conditionItems) \ {"-"} :
        /\ c # self.p3Selection
        /\ Step("p3Selection", ROI_Change([Command(self) EXCEPT !.p3Selection = c]))

AlgorithmSelect ==
    \E a \in {"wavelet", "simple"} :
        /\ self.enabled["peak_CB"]
        /\ a # self.peak_CB
        /\ Step("peak_CB", ROI_Change([Command(self) EXCEPT !.peak_CB = a]))

CutoffChange ==
    \E v \in {30, 100} :
        /\ self.enabled["removeSml_Spin"]
        /\ v # self.removeSml_Spin
        /\ Step("removeSml_Spin", ROI_Change([Command(self) EXCEPT !.removeSml_Spin = v]))

BaselineSelect ==
    \E b \in {"Auto", "None", "Lock"} :
        /\ self.enabled["autobs_Box"]
        /\ b # self.autobs_Box
        /\ Step("autobs_Box", ROI_Change([Command(self) EXCEPT !.autobs_Box = b]))

NBinChange ==
    \E v \in {0, 100} :
        /\ v # self.histo_NBin_Spin
        /\ Step("histo_NBin_Spin",
                updateHistograms([Command(self) EXCEPT !.histo_NBin_Spin = v]))

\* the places of a click in the zoom plot: the samples of the displayed
\* trace, or (0) the empty plot as long as no click parser was made
ClickTargets(s) ==
    IF Len(s.curve.x) > 0 THEN 1..Len(s.curve.x)
    ELSE IF ~s.cA THEN {0} ELSE {}

\* a mouse click in the zoom plot, locked to sample k of the trace
Click ==
    \E k \in ClickTargets(self) :
        /\ self.edits < MaxEdits
        /\ Step("clickRelay", clickRelay([Command(self) EXCEPT !.edits = @ + 1], k))

Next ==
    \/ OpenFile
    \/ DatasetSelect
    \/ ExtractAllPeaks
    \/ ModeSelect
    \/ ROISelect
    \/ P3Select
    \/ AlgorithmSelect
    \/ CutoffChange
    \/ BaselineSelect
    \/ NBinChange
    \/ Click

Spec == Init /\ [][Next]_vars

(***************************************************************************)
(* The session with the exports and the follow-up dialogs: the commands of *)
(* Spec, and besides them File > Save Peaks (or the button "Save peak      *)
(* data"), the checkbox "Save Histograms", and the two analysis dialogs,   *)
(* each from the menu Analysis or from its button.                         *)
(***************************************************************************)
SavePeaks ==
    \E via \in {"menu", "button"}, filename \in {"", "peaks"} :
        /\ via = "button" => self.analysisBtnEnabled
        /\ StepOut("save_peaks", save_peaks(Command(self), filename).s,
                   save_peaks(Command(self), filename).wb)

SaveHistogramsToggle ==
    \E checked \in BOOLEAN :
        /\ checked # self.saveHistogramsOption
        /\ Step("saveHistogramsLogic",
                saveHistogramsLogic(Command(self), checked))

GetGroups ==
    \E via \in {"menu", "button"} :
        /\ via = "button" => self.analysisBtnEnabled
        /\ StepOut("getGroups", getGroups(Command(self)).s,
                   getGroups(Command(self)).shown)

LaunchHistogramFit ==
    \E via \in {"menu", "button"} :
        /\ via = "button" => self.analysisBtnEnabled
        /\ StepOut("launchHistogramFit", launchHistogramFit(Command(self)).s,
                   launchHistogramFit(Command(self)).shown)

NextSession ==
    \/ Next
    \/ SavePeaks
    \/ SaveHistogramsToggle
    \/ GetGroups
    \/ LaunchHistogramFit

SpecSession == Init /\ [][NextSession]_vars

(***************************************************************************)
(* The session with the two sliders of the baseline estimator: the         *)
(* commands of Spec, and besides them a move of the lambda slider or of    *)
(* the p slider, whose slot is ROI_Change.                                 *)
(***************************************************************************)
LamSliderChange ==
    \E v \in LamSliderValues :
        /\ self.enabled["auto_bs_lam_slider"]
        /\ v # self.auto_bs_lam_slider
        /\ Step("auto_bs_lam_slider",
                ROI_Change([Command(self) EXCEPT !.auto_bs_lam_slider = v]))

PSliderChange ==
    \E v \in PSliderValues :
        /\ self.enabled["auto_bs_P_slider"]
        /\ v # self.auto_bs_P_slider
        /\ Step("auto_bs_P_slider",
                ROI_Change([Command(self) EXCEPT !.auto_bs_P_slider = v]))

NextBaseline ==
    \/ Next
    \/ LamSliderChange
    \/ PSliderChange

SpecBaseline == Init /\ [][NextBaseline]_vars

(***************************************************************************)
(* Properties of the dataset list and the Store.                           *)
(***************************************************************************)
\* C1: after any loads and accepted extractions the names in the dataset
\* list are pairwise distinct, and no two datasets share a name (the
\* working dataset and an archived dataset of its name are one dataset).
C1_NamesDistinct ==
    /\ \A i, j \in 1..Len(self.datasetList_CBX) :
           i # j => self.datasetList_CBX[i] # self.datasetList_CBX[j]
    /\ \A n \in DOMAIN self.store :
           n = self.workingDataset.DSname
               => self.store[n].traces.tid = self.workingDataset.traces.tid

\* C2: after a dataset was registered under a taken name, the resolved name
\* is the name plus 3 characters, the new dataset has it, and under their
\* names the earlier and the new dataset are retrieved, each with its own
\* traces and its own Results object.
C2_BothRetrievable ==
    self.lastReg # NoReg =>
        /\ Len(self.lastReg.resolved) = Len(self.lastReg.orig) + 3
        /\ \E x \in Suffixes : self.lastReg.resolved = self.lastReg.orig \o x
        /\ Retrieve(self, self.lastReg.orig).traces.tid = self.lastReg.old
        /\ Retrieve(self, self.lastReg.resolved).traces.tid = self.lastReg.new
        /\ Retrieve(self, self.lastReg.orig).resultsDF
               # Retrieve(self, self.lastReg.resolved).resultsDF

\* the step is a switch by the dataset selector to another dataset
Switch ==
    /\ op' = "datasetCBx"
    /\ currentDataset(self') # self.workingDataset.DSname

\* the Results object of the dataset archived under the selected name
archivedResults(s) == s.store[currentDataset(self')].resultsDF

\* C3: a switch archives the working dataset under its name and makes the
\* selected one the working dataset, with the name, traces and Results it
\* had in the Store.
C3_SwitchRestores ==
    [][Switch =>
          /\ self.workingDataset.DSname \in DOMAIN self'.store
          /\ self'.store[self.workingDataset.DSname] = self.workingDataset
          /\ currentDataset(self') \in DOMAIN self.store
          /\ self'.workingDataset = self.store[currentDataset(self')]
          /\ self'.heap[archivedResults(self)] = self.heap[archivedResults(self)]
      ]_vars

\* C3 (amended): as C3, but of the Results only the cells outside the first
\* ROI of the dataset's ROI list are the same in Auto mode (all of them in
\* Manual mode): the update cycle that ends the switch recomputes the rest.
C3_SwitchRestoresButFirstROI ==
    [][Switch =>
          /\ self.workingDataset.DSname \in DOMAIN self'.store
          /\ self'.store[self.workingDataset.DSname] = self.workingDataset
          /\ currentDataset(self') \in DOMAIN self.store
          /\ self'.workingDataset = self.store[currentDataset(self')]
          /\ \A rc \in AllROIs \X Conds :
                 (self'.autoPeaks => rc[1] # self'.workingDataset.ROI_list[1])
                     => self'.heap[archivedResults(self)].cells[rc]
                            = self.heap[archivedResults(self)].cells[rc]
      ]_vars

\* a switch back to a dataset whose first-ROI cells the update cycle changed
C3_Witness ==
    /\ op = "datasetCBx"
    /\ self.err = ""
    /\ self.autoPeaks
    /\ self.workingDataset.DSname = currentDataset(self)
    /\ self.workingDataset.DSname \in DOMAIN self.store
    /\ Len(self.datasetList_CBX) > 1
    /\ \E c \in Conds : cell(self, "Mean", c) # <<>>

(***************************************************************************)
(* Properties of the detection mode.                                       *)
(***************************************************************************)
\* C4: the mode is Auto initially and changes only in a step of the
\* Auto/Manual selector.
C4_ModeBySelectorOnly ==
    /\ self.commands = 0 => self.autoPeaks
    /\ [][self'.autoPeaks # self.autoPeaks => op' = "manualPeakToggle"]_vars

\* C4 (amended): the mode is Auto initially and changes only in a step of
\* the Auto/Manual selector, or to Manual in a step that makes a dataset
\* with the directive autoPeaks = "Disable" the working dataset.
C4_ModeBySelectorOrDirective ==
    /\ self.commands = 0 => self.autoPeaks
    /\ [][self'.autoPeaks # self.autoPeaks =>
              \/ op' = "manualPeakToggle"
              \/ /\ op' \in {"datasetCBx", "extractAllPeaks"}
                 /\ ~self'.autoPeaks
                 /\ self'.workingDataset # self.workingDataset
                 /\ <<"autoPeaks", "Disable">> \in self'.workingDataset.GUIcontrols
      ]_vars

\* the directive of an extracted dataset has made the mode Manual
C4_Witness ==
    /\ op = "extractAllPeaks"
    /\ ~self.autoPeaks
    /\ <<"autoPeaks", "Disable">> \in self.workingDataset.GUIcontrols

\* C5: in Manual mode every control of the automatic detection is disabled,
\* the smoothing window among them, and in Auto mode all are enabled.
C5_ManualDisablesAll ==
    /\ ~self.autoPeaks => \A c \in DetectionControls : ~self.enabled[c]
    /\ self.autoPeaks => \A c \in DetectionControls : self.enabled[c]

\* what the detector selected by peak_CB makes of the trace of (roi, c) of
\* the working dataset, with the cutoff and the baseline mode as set now
Detected(s, roi, c) ==
    peaksWrapper(s.peak_CB = "simple", TimeAxis,
                 roiTrace(s.workingDataset.traces, c, roi,
                          s.autobs_Box # "None" /\ roi # "Variance"),
                 s.removeSml_Spin)

\* the cell of (roi, c) holds exactly what the detector returns for it
HoldsDetected(s, roi, c) ==
    /\ Detected(s, roi, c).exc = ""
    /\ cell(s, roi, c) = DedupKeepFirst(Zip(Detected(s, roi, c).xp,
                                            Detected(s, roi, c).yp))

\* C6: when the selector has switched the mode from Manual back to Auto,
\* the cells of the selected ROI hold, for every condition the detector
\* returns peaks for, the detections with the current parameters.
C6_AutoRestoresDetection ==
    [][(/\ op' = "manualPeakToggle"
        /\ ~self.autoPeaks /\ self'.autoPeaks
        /\ self.dataLoaded)
       => \A c \in TraceConds(self'.workingDataset.traces) :
              Detected(self', self'.ROI_selectBox, c).exc = ""
                  => HoldsDetected(self', self'.ROI_selectBox, c)
      ]_vars

\* the commands whose slot is the update cycle ROI_Change
UpdateCycles ==
    {"ROI_selectBox", "p3Selection", "peak_CB", "removeSml_Spin", "autobs_Box"}

\* C7: an update cycle in Auto mode replaces, for every condition the
\* detector returns peaks for, the cell of the selected ROI by exactly the
\* detector's output, keeping no earlier point; an update cycle in Manual
\* mode writes into no cell.
C7_OneSourcePerCycle ==
    [][(op' \in UpdateCycles /\ self.dataLoaded) =>
          /\ self'.autoPeaks
                 => \A c \in Range(self'.conditions)
                               \cap TraceConds(self'.workingDataset.traces) :
                        Detected(self', self'.ROI_selectBox, c).exc = ""
                            => HoldsDetected(self', self'.ROI_selectBox, c)
          /\ ~self'.autoPeaks => self'.heap = self.heap
      ]_vars

\* C8: after a click on the zoom plot in Manual mode has been processed, the
\* cell of (selected ROI, condition of the zoom plot) holds exactly the
\* markers now shown.
C8_CellIsMarkers ==
    [][(op' = "clickRelay" /\ ~self.autoPeaks /\ self.cA)
       => cell(self', self'.ROI_selectBox, self'.p3Selection) = self'.scatter
      ]_vars

\* C18: after a click on the zoom plot in Manual mode has been processed, the
\* histograms shown in p2 are the histograms of the Results as they are
\* after the edit.
C18_HistogramAfterEdit ==
    [][(op' = "clickRelay" /\ ~self.autoPeaks /\ self.cA)
       => self'.p2 = updateHistograms(self').p2
      ]_vars

\* C15: an update cycle in Auto mode leaves the stored traces as they are,
\* and a second run of the cycle with no control changed leaves the Results
\* and the traces as the first run left them.
C15_SecondRunSameResults ==
    [][(op' \in UpdateCycles /\ self.dataLoaded /\ self'.autoPeaks) =>
          /\ self'.workingDataset.traces = self.workingDataset.traces
          /\ Swallow(ROI_Change(self')).heap = self'.heap
          /\ Swallow(ROI_Change(self')).workingDataset = self'.workingDataset
      ]_vars

\* an update cycle in Auto mode has written detected peaks into a cell
C15_Witness ==
    /\ op \in UpdateCycles
    /\ self.dataLoaded
    /\ self.autoPeaks
    /\ self.err = ""
    /\ \E c \in Range(self.conditions) :
           /\ cell(self, self.ROI_selectBox, c) # <<>>
           /\ HoldsDetected(self, self.ROI_selectBox, c)

C24_MissingUnitIsEmptyResult ==
    (/\ self.dataLoaded
     /\ \E i \in 1..Len(self.conditions) :
            self.conditions[i] \notin TraceConds(self.workingDataset.traces))
        => self.err # "KeyError"

\* the working dataset was made by a peak extraction: its ROI list is that
\* of the extracted Results, without the two synthetic ROIs
extractedWorking(s) ==
    /\ ~s.workingDataset.isEmpty
    /\ s.workingDataset.ROI_list = Columns

\* C26: a dataset made by peak extraction carries the directive autoPeaks =
\* "Disable"; after every command that leaves it the working dataset the
\* mode is Manual, baseline removal is None and the Auto/Manual selector is
\* disabled; and while it stays the working dataset its Results change
\* only by a click of the user, never by a detection.
C26_ExtractedStaysManual ==
    [][/\ extractedWorking(self') =>
              /\ <<"autoPeaks", "Disable">> \in self'.workingDataset.GUIcontrols
              /\ ~self'.autoPeaks
              /\ self'.manualChecked
              /\ self'.autobs_Box = "None"
              /\ ~self'.radiosEnabled
       /\ (/\ extractedWorking(self)
           /\ extractedWorking(self')
           /\ self'.workingDataset.resultsDF = self.workingDataset.resultsDF
           /\ op' # "clickRelay")
              => workingResults(self') = workingResults(self)]_vars

\* an extracted dataset with peaks is the working dataset, and an update
\* cycle has run on it by a change of the ROI
C26_Witness ==
    /\ extractedWorking(self)
    /\ op = "ROI_selectBox"
    /\ self.workingDataset.DSname \in DOMAIN self.store
    /\ \E rc \in AllROIs \X Conds : workingResults(self).cells[rc] # <<>>

\* C27: extractAllPeaks, accepted or cancelled and whatever the baseline
\* setting, leaves the traces of the dataset it was called on unchanged:
\* the baseline is removed only from the copy handed to the dialog.
C27_ExtractionKeepsTraces ==
    [][op' = "extractAllPeaks" =>
           Retrieve(self', self.workingDataset.DSname).traces
               = self.workingDataset.traces]_vars

\* an accepted extraction with baseline removal: the extracted dataset has
\* the baselined traces, the dataset it was made from the traces of the file
C27_Witness ==
    /\ op = "extractAllPeaks"
    /\ extractedWorking(self)
    /\ self.workingDataset.traces.bl
    /\ \E n \in DOMAIN self.store :
           /\ self.store[n].traces.file = self.workingDataset.traces.file
           /\ ~self.store[n].traces.bl
           /\ self.store[n].ROI_list # Columns

\* C29: a click on the zoom plot in Auto mode is not forwarded to the click
\* editor: the markers and the Results are as before the click; in Manual
\* mode every click is forwarded, locked to the data: the markers are those
\* the editor makes of the click on a sample of the displayed trace.
C29_ClicksForwardedOnlyInManual ==
    [][op' = "clickRelay" =>
           IF self.autoPeaks
           THEN /\ self'.scatter = self.scatter
                /\ self'.heap = self.heap
           ELSE \E k \in 1..Len(self.curve.x) :
                    self'.scatter = onClick(self, k).scatter]_vars

\* C30: after every command the crosshair is among the items of the zoom
\* plot exactly when the mode is Manual, and the flag noCrosshair is true
\* exactly when it is not among them.
C30_CrosshairInStep ==
    /\ self.crosshair <=> ~self.autoPeaks
    /\ self.noCrosshair <=> ~self.crosshair

(***************************************************************************)
(* Properties of a file load and of the dataset selector.                  *)
(***************************************************************************)
\* C33: a file load while a dataset is active leaves the dataset it
\* archives as it was: once the load is complete, the Results of the
\* archived dataset hold the peaks they held just before the load.
C33_LoadKeepsArchived ==
    [][(/\ op' = "open_file"
        /\ ~self.workingDataset.isEmpty
        /\ self.workingDataset.resultsDF # 0
        /\ self'.err = ""
        /\ self.workingDataset.DSname \in DOMAIN self'.store) =>
          self'.heap[self'.store[self.workingDataset.DSname].resultsDF]
              = self.heap[self.workingDataset.resultsDF]
      ]_vars

\* C34: after every completed file load, dataset selection or accepted
\* extraction, the name the dataset selector shows as current is the name
\* of the working dataset.
C34_SelectorShowsWorking ==
    [][(/\ op' \in {"open_file", "datasetCBx", "extractAllPeaks"}
        /\ self'.err = ""
        /\ op' = "extractAllPeaks" => self'.nextId # self.nextId) =>
          currentDataset(self') = self'.workingDataset.DSname
      ]_vars

\* C36: after every completed file load or dataset switch, the condition
\* list of the update cycle and the histograms, and the items of the
\* condition selectors, are the conditions of the traces of the working
\* dataset.
C36_ConditionsOfWorking ==
    [][(op' \in {"open_file", "datasetCBx"} /\ self'.err = "") =>
          /\ Range(self'.conditions)
                 = TraceConds(self'.workingDataset.traces)
          /\ Range(self'.conditionItems)
                 = TraceConds(self'.workingDataset.traces)
      ]_vars

\* C37: after a file load, whatever dataset was active before it, the
\* Auto/Manual selector is enabled and the loaded dataset carries no
\* directive autoPeaks = "Disable".
C37_LoadEnablesModeSelector ==
    (op = "open_file" /\ self.err = "") =>
        /\ self.radiosEnabled
        /\ <<"autoPeaks", "Disable">> \notin self.workingDataset.GUIcontrols

\* C38: an extraction whose dialog was cancelled leaves the stored state as
\* it was: the Store, the dataset list, the working dataset with its
\* Results and their reference peak times, the detection mode and the
\* enabled state of the save and analysis buttons.
C38_CancelledExtractionNoEffect ==
    [][(/\ op' = "extractAllPeaks"
        /\ self'.err = ""
        /\ self'.nextId = self.nextId) =>
          /\ self'.store = self.store
          /\ self'.datasetList_CBX = self.datasetList_CBX
          /\ self'.datasetCBx = self.datasetCBx
          /\ self'.workingDataset = self.workingDataset
          /\ self'.heap = self.heap
          /\ self'.autoPeaks = self.autoPeaks
          /\ self'.manualChecked = self.manualChecked
          /\ self'.noPeaks = self.noPeaks
          /\ self'.analysisBtnEnabled = self.analysisBtnEnabled
      ]_vars

\* C39: a manual edit writes only the cell of the selected ROI and of the
\* condition of the zoom plot: every other cell of the Results of the
\* working dataset, and every other Results object, is left as it was.
C39_EditWritesOneCell ==
    [][op' = "clickRelay" =>
          /\ Len(self'.heap) = Len(self.heap)
          /\ \A a \in 1..Len(self.heap) :
                 \A rc \in AllROIs \X Conds :
                     (\/ a # self.workingDataset.resultsDF
                      \/ rc # <<self.ROI_selectBox, self.p3Selection>>)
                         => self'.heap[a].cells[rc] = self.heap[a].cells[rc]
      ]_vars

\* a click has changed the cell of the zoom plot's condition while the cell
\* of another condition of the same ROI holds peaks
C39_Witness ==
    /\ op = "clickRelay"
    /\ ~self.autoPeaks
    /\ self.err = ""
    /\ cell(self, self.ROI_selectBox, self.p3Selection) # <<>>
    /\ \E c \in Range(self.conditions) \ {self.p3Selection} :
           cell(self, self.ROI_selectBox, c) # <<>>

(***************************************************************************)
(* Properties of the parameters of the baseline estimator.                 *)
(***************************************************************************)
\* C31: a command that ends with baseline removal set to "Lock" leaves
\* lambda and p as they were, whatever the sliders show, and a baseline
\* estimated during it (by the update cycle or by extractAllPeaks) used
\* those values, the ones captured when the setting was last "Auto".
C31_LockKeepsParams ==
    [][self'.autobs_Box = "Lock" =>
          /\ self'.auto_bs_lam = self.auto_bs_lam
          /\ self'.auto_bs_P = self.auto_bs_P
          /\ self'.bsUsed.kind = "estimated" =>
                 /\ self'.bsUsed.lam = self.auto_bs_lam
                 /\ self'.bsUsed.p = self.auto_bs_P]_vars

\* a slider was moved in Lock, a baseline was estimated, and the slider no
\* longer shows the lambda or the p that was used
C31_Witness ==
    /\ op \in {"auto_bs_lam_slider", "auto_bs_P_slider"}
    /\ self.autobs_Box = "Lock"
    /\ self.bsUsed.kind = "estimated"
    /\ \/ self.bsUsed.lam # auto_bs_lam(self.auto_bs_lam_slider)
       \/ self.bsUsed.p # auto_bs_P(self.auto_bs_P_slider)

\* an extraction in Lock after a slider was moved estimated the baseline
\* with the values captured before
C31_WitnessExtract ==
    /\ op = "extractAllPeaks"
    /\ self.autobs_Box = "Lock"
    /\ self.bsUsed.kind = "estimated"
    /\ self.bsUsed.lam # auto_bs_lam(self.auto_bs_lam_slider)

\* C35: whenever a baseline is estimated, in the update cycle or in
\* extractAllPeaks, lambda and p were set from the sliders before: the
\* estimator never reads them unset.
C35_ParamsSetBeforeEstimate == self.bsUsed # Unset

(***************************************************************************)
(* Properties of the exports and the follow-up dialogs.                    *)
(***************************************************************************)
\* the histogram of the peak amplitudes the cell holds now
currentHistogram(roi, c) ==
    hist(Amps(cell(self, roi, c)), self.histo_NBin_Spin, self.histo_Max_Spin)

\* C25: the exported histograms are those of the current Results content
\* of the working dataset: the counts exported for a (ROI, condition) are
\* the histogram of the peak amplitudes the cell holds when saving.
C25_ExportedHistogramsCurrent ==
    (fout.kind = "workbook" /\ fout.withHistograms) =>
        \A k \in 1..Len(fout.histograms) :
            \A roi \in AllROIs, c \in Conds :
                fout.histograms[k].name = roi \o " " \o c
                    => fout.histograms[k].hy = currentHistogram(roi, c)

\* C28: until a peak extraction was accepted, neither follow-up dialog is
\* shown by any command and Save Peaks writes no file.
C28_FollowUpsNeedExtraction ==
    self.noPeaks => fout.kind \notin {"dialog", "workbook"}

(***************************************************************************)
(* The crosshair of the zoom plot, on its own: mouseMoved on any displayed *)
(* trace (sx, sy) and any cursor position x.  Times and positions are on   *)
(* one integer grid, so that a position can lie midway between two         *)
(* samples.                                                                *)
(***************************************************************************)
\* a scan that keeps the last of equal minima
RECURSIVE argminLast(_, _, _)
argminLast(d, k, best) ==
    IF k > Len(d) THEN best
    ELSE argminLast(d, k + 1, IF d[k] <= d[best] THEN k ELSE best)

\* np.argmin: the scan keeps the first of equal minima; 1-based
RECURSIVE argminScan(_, _, _)
argminScan(d, k, best) ==
    IF k > Len(d) THEN best
    ELSE argminScan(d, k + 1, IF d[k] < d[best] THEN k ELSE best)

argmin(d) == argminScan(d, 2, 1)

\* the position of the crosshair after the mouse moved to x
mouseMoved(autoPeaks, sx, sy, x) ==
    IF autoPeaks THEN [kind |-> "unchanged"]
    ELSE LET idx == argmin([k \in 1..Len(sx) |-> Abs(sx[k] - x)])
         IN  [kind |-> "crosshair", idx |-> idx,
              ch_x |-> sx[idx], ch_y |-> sy[idx]]

SeqsUpTo(S, lo, hi) == UNION {[1..n -> S] : n \in lo..hi}

TimeAxes ==
    {sx \in SeqsUpTo(0..MaxTime, 1, MaxSamples) :
         \A k \in 1..(Len(sx) - 1) : sx[k] <= sx[k + 1]}

InitLock ==
    /\ self = InitSelf
    /\ op = "init"
    /\ fin \in {[kind |-> "mouse", autoPeaks |-> a, sx |-> sx, sy |-> sy, x |-> x] :
                   a \in BOOLEAN, sx \in TimeAxes,
                   sy \in SeqsUpTo(0..1, 1, MaxSamples), x \in 0..MaxTime}
    /\ Len(fin.sx) = Len(fin.sy)
    /\ fout = NoInput

MouseMoved ==
    /\ fin.kind = "mouse"
    /\ fout = NoInput
    /\ fout' = mouseMoved(fin.autoPeaks, fin.sx, fin.sy, fin.x)
    /\ UNCHANGED <<self, op, fin>>

NextLock == MouseMoved

SpecLock == InitLock /\ [][NextLock]_vars

\* C9: in Manual mode the locked point is the sample whose time is nearest
\* to the cursor, the first of them on a tie, and the locked x and y are the
\* time and the amplitude of that sample.
C9_LockedToNearestSample ==
    fout.kind = "crosshair" =>
        /\ ~fin.autoPeaks
        /\ fout.idx \in 1..Len(fin.sx)
        /\ \A k \in 1..Len(fin.sx) :
               Abs(fin.sx[fout.idx] - fin.x) <= Abs(fin.sx[k] - fin.x)
        /\ \A k \in 1..(fout.idx - 1) :
               Abs(fin.sx[fout.idx] - fin.x) < Abs(fin.sx[k] - fin.x)
        /\ fout.ch_x = fin.sx[fout.idx]
        /\ fout.ch_y = fin.sy[fout.idx]

\* the cursor is midway between two samples of different amplitude
C9_Witness ==
    /\ fout.kind = "crosshair"
    /\ \E k \in 1..Len(fin.sx) :
           /\ k # fout.idx
           /\ fin.sx[k] # fin.sx[fout.idx]
           /\ fin.sy[k] # fin.sy[fout.idx]
           /\ Abs(fin.sx[k] - fin.x) = Abs(fin.sx[fout.idx] - fin.x)

(***************************************************************************)
(* The cutoff of the wavelet detector, on its own: the part of             *)
(* findcwtPeaks after the ridge search, on any trace ydat, any indices     *)
(* peakcwt the search may give, and any cutoff.                            *)
(***************************************************************************)
InitCwt ==
    /\ self = InitSelf
    /\ op = "init"
    /\ fin \in {[kind |-> "cwt", ydat |-> y, peakcwt |-> pk, removeSml |-> r] :
                   y \in SeqsUpTo(0..MaxAmp, 2, MaxSamples),
                   pk \in SeqsUpTo(0..(MaxSamples - 3), 0, 2),
                   r \in {0, 50, 100}}
    /\ \A k \in 1..Len(fin.peakcwt) : fin.peakcwt[k] <= Len(fin.ydat) - 3
    /\ fout = NoInput

FindCwtPeaks ==
    /\ fin.kind = "cwt"
    /\ fout = NoInput
    /\ fout' = [kind |-> "peaks",
                r |-> cwtFromRidge([k \in 1..Len(fin.ydat) |-> k - 1],
                                   fin.ydat, fin.peakcwt, fin.removeSml)]
    /\ UNCHANGED <<self, op, fin>>

NextCwt == FindCwtPeaks

SpecCwt == InitCwt /\ [][NextCwt]_vars

\* the detected peaks of the run: the samples at the indices peakcwt
detectedPeaks ==
    [k \in 1..Len(fin.peakcwt) |->
        <<At([j \in 1..Len(fin.ydat) |-> j - 1], fin.peakcwt[k]),
          At(fin.ydat, fin.peakcwt[k])>>]

\* C10: the wavelet detector returns the detected peaks without exactly
\* those whose amplitude is below cutoffPercent x max(signal): a peak at or
\* above the cutoff is returned.
C10_CutoffKeepsAtOrAbove ==
    (fout.kind = "peaks" /\ Len(fin.peakcwt) # 0) =>
        Zip(fout.r.xp, fout.r.yp) =
            SelectIdx(detectedPeaks,
                      {k \in 1..Len(detectedPeaks) :
                          detectedPeaks[k][2] * 100
                              >= fin.removeSml * Max(Range(fin.ydat))},
                      1)

(***************************************************************************)
(* The cutoff on the trace 0, 1, 0, 5, 0, 1, 0, 6, 0 at t = 0..8 with the  *)
(* peaks detected at t = 3 and t = 7, for every value of the cutoff spin   *)
(* box.                                                                    *)
(***************************************************************************)
ExampleTrace == <<0, 1, 0, 5, 0, 1, 0, 6, 0>>

ExamplePeaks == <<3, 7>>

InitCwtExample ==
    /\ self = InitSelf
    /\ op = "init"
    /\ fin \in {[kind |-> "cwt", ydat |-> ExampleTrace,
                 peakcwt |-> ExamplePeaks, removeSml |-> r] : r \in 0..100}
    /\ fout = NoInput

SpecCwtExample == InitCwtExample /\ [][NextCwt]_vars

InitDetect ==
    /\ self = InitSelf
    /\ op = "init"
    /\ fin \in {[kind |-> "detect", simplePeaks |-> a, ydat |-> y, removeSml |-> r] :
                    a \in BOOLEAN, y \in SeqsUpTo(0..MaxAmp, 2, MaxSamples),
                    r \in {0, 30, 100}}
               \cup {[kind |-> "scales", cwt_width |-> w] : w \in 2..20}
    /\ fout = NoInput

Detect ==
    /\ fin.kind = "detect"
    /\ fout = NoInput
    /\ fout' = [kind |-> "peaks",
                r |-> peaksWrapper(fin.simplePeaks,
                                   [k \in 1..Len(fin.ydat) |-> k - 1],
                                   fin.ydat, fin.removeSml)]
    /\ UNCHANGED <<self, op, fin>>

RidgeScales ==
    /\ fin.kind = "scales"
    /\ fout = NoInput
    /\ fout' = [kind |-> "scales", widths |-> cwtWidths(fin.cwt_width)]
    /\ UNCHANGED <<self, op, fin>>

NextDetect ==
    \/ Detect
    \/ RidgeScales

SpecDetect == InitDetect /\ [][NextDetect]_vars

\* C12: for every width w the ridge search runs over the scales 1, 2, ..., w,
\* the scale w included.
C12_ScalesIncludeWidth ==
    fout.kind = "scales" => Range(fout.widths) = 1..fin.cwt_width

\* the indices the underlying search of the run found
searchFound ==
    IF fin.simplePeaks THEN find_peaks(fin.ydat, cwt_SNR_Spin)
    ELSE find_peaks_cwt(fin.ydat, cwtWidths(cwt_w_Spin), cwt_SNR_Spin)

\* C13: when the underlying search finds no peak, either detector returns
\* two empty sequences and raises no error.
C13_NoPeakReturnsEmpty ==
    (fout.kind = "peaks" /\ searchFound = <<>>) =>
        fout.r = Returned(<<>>, <<>>)

\* C14: when the simple detector finds at least one local maximum, it
\* returns without error the times and the amplitudes of the samples at the
\* detected indices.
C14_SimpleReturnsPeaks ==
    (fout.kind = "peaks" /\ fin.simplePeaks /\ searchFound # <<>>) =>
        fout.r = Returned([k \in 1..Len(searchFound) |-> searchFound[k]],
                          [k \in 1..Len(searchFound) |->
                              fin.ydat[searchFound[k] + 1]])

HistConditions == {<<>>, <<"A">>, <<"A", "B">>}

HistAmplitudes == SeqsUpTo((-1)..(MaxAmp + 1), 0, MaxPeaks)

\* the option of the fit and its outcome, read only if the option is on
FitOutcomes == {<<FALSE, FALSE>>, <<TRUE, FALSE>>, <<TRUE, TRUE>>}

InitHist ==
    /\ self = InitSelf
    /\ op = "init"
    /\ \E c \in HistConditions :
           fin \in {[kind |-> "hist", nbins |-> n, max |-> m, hsum |-> h,
                     conditions |-> c, pdata |-> d,
                     fitHistogramsOption |-> o[1], success |-> o[2]] :
                       n \in 0..MaxBins, m \in 1..MaxAmp,
                       h \in {"Separated", "Summed"},
                       d \in [1..Len(c) -> HistAmplitudes],
                       o \in FitOutcomes}
    /\ fout = NoInput

UpdateHistograms ==
    /\ fin.kind = "hist"
    /\ fout = NoInput
    /\ fout' = [kind |-> "p2",
                r |-> p2Plots(fin.nbins, fin.max, "X", fin.hsum,
                              fin.conditions, fin.pdata,
                              fin.fitHistogramsOption, fin.success)]
    /\ UNCHANGED <<self, op, fin>>

DoHistograms ==
    /\ fin.kind = "hist"
    /\ fout = NoInput
    /\ fout' = [kind |-> "hDF",
                r |-> doHistograms(fin.nbins, fin.max, "X", fin.conditions,
                                   fin.pdata)]
    /\ UNCHANGED <<self, op, fin>>

NextHist ==
    \/ UpdateHistograms
    \/ DoHistograms

SpecHist == InitHist /\ [][NextHist]_vars

\* the total of the counts of a count vector
RECURSIVE totalOver(_, _)
totalOver(hy, B) ==
    IF B = {} THEN 0
    ELSE totalOver(hy, B \ {Min(B)}) + hy.counts[Min(B)]

total(hy) == totalOver(hy, DOMAIN hy.counts)

\* the number of amplitudes of the i-th cell from lo up to hi, hi excluded
\* or included
inHalfOpen(i, lo, hi) ==
    Cardinality({k \in 1..Len(fin.pdata[i]) :
                    lo <= fin.pdata[i][k] /\ fin.pdata[i][k] < hi})

inClosed(i, lo, hi) ==
    Cardinality({k \in 1..Len(fin.pdata[i]) :
                    lo <= fin.pdata[i][k] /\ fin.pdata[i][k] <= hi})

\* the histograms built one per cell: displayed "Separated", or exported
perCellBuilt ==
    /\ fout.kind \in {"p2", "hDF"}
    /\ fout.kind = "p2" => fin.hsum = "Separated"
    /\ fout.r.exc = ""

summedBuilt ==
    /\ fout.kind = "p2"
    /\ fin.hsum = "Summed"
    /\ fout.r.exc = ""

\* the total of bin b over the cells of the conditions i..Len(pdata)
RECURSIVE binOverConditions(_, _)
binOverConditions(b, i) ==
    IF i > Len(fin.pdata) THEN 0
    ELSE countAt(hist(fin.pdata[i], fin.nbins, fin.max), b)
             + binOverConditions(b, i + 1)

C19_FitCurveOnlyOnSuccess ==
    fout.kind = "p2" =>
        /\ (\E i \in 1..Len(fout.r.items) :
                fout.r.items[i].name = "Fit of Gaussians")
               => (fout.r.fit = "success" /\ fin.success)
        /\ fout.r.fit # "none" => fin.fitHistogramsOption
        /\ fout.r.fit = "failed" => Len(fout.r.items) = 1

\* the fit was run on a summed histogram and failed
C19_Witness ==
    /\ fout.kind = "p2"
    /\ fout.r.exc = ""
    /\ fin.fitHistogramsOption
    /\ ~fin.success
    /\ fout.r.fit = "failed"

(***************************************************************************)
(* The peak export on its own: the sheet save_peaks writes for one         *)
(* condition, on any table of up to MaxSamples rows, rows of one time      *)
(* among them.                                                             *)
(***************************************************************************)
InitSheet ==
    /\ self = InitSelf
    /\ op = "init"
    /\ \E cols \in {<<"X">>, <<"X", "Y">>} :
         \E ix \in SeqsUpTo(0..2, 0, MaxSamples) :
           fin \in {[kind |-> "table", _condi |-> c,
                     _resultdf |-> [columns |-> cols, index |-> ix, data |-> d]] :
                       c \in Conds,
                       d \in [1..Len(ix) -> [1..Len(cols) -> 0..1]]}
    /\ fout = NoInput

WriteSheet ==
    /\ fin.kind = "table"
    /\ fout = NoInput
    /\ fout' = [kind |-> "sheet",
                sheet |-> peakSheet(fin._condi, fin._resultdf)]
    /\ UNCHANGED <<self, op, fin>>

NextSheet == WriteSheet

SpecSheet == InitSheet /\ [][NextSheet]_vars

\* the first row of the table with time t
firstRow(_resultdf, t) ==
    Min({k \in 1..Len(_resultdf.index) : _resultdf.index[k] = t})

\* C21: every sheet of the peak export has the header "Time" followed by
\* one column "<ROI> <condition>" per ROI, its rows have pairwise distinct
\* times, and each row is the first row of the table with its time.
C21_SheetHeaderAndKeepFirst ==
    fout.kind = "sheet" =>
        LET sh == fout.sheet
            df == fin._resultdf
        IN  /\ sh.header = <<"Time">>
                   \o [n \in 1..Len(df.columns) |->
                          df.columns[n] \o " " \o fin._condi]
            /\ \A j, k \in 1..Len(sh.rows) :
                   j # k => sh.rows[j][1] # sh.rows[k][1]
            /\ {sh.rows[k][1] : k \in 1..Len(sh.rows)} = Range(df.index)
            /\ \A k \in 1..Len(sh.rows) :
                   sh.rows[k] = <<sh.rows[k][1]>>
                                \o df.data[firstRow(df, sh.rows[k][1])]

(***************************************************************************)
(* The reference peak times on their own: the sequence extractAllPeaks     *)
(* makes of the times getPeaks returned, on any Series of up to MaxSamples *)
(* times in any order, missing values among them.                          *)
(***************************************************************************)
InitRef ==
    /\ self = InitSelf
    /\ op = "init"
    /\ fin \in {[kind |-> "peak_t", _peak_t |-> s] :
                   s \in SeqsUpTo((0..MaxTime) \cup {NaN}, 0, MaxSamples)}
    /\ fout = NoInput

SortPeakTimes ==
    /\ fin.kind = "peak_t"
    /\ fout = NoInput
    /\ fout' = [kind |-> "peakTimes",
                peakTimes |-> sortedPeakTimes(fin._peak_t)]
    /\ UNCHANGED <<self, op, fin>>

NextRef == SortPeakTimes

SpecRef == InitRef /\ [][NextRef]_vars

\* how many times t is in s
countOf(s, t) == Cardinality({k \in 1..Len(s) : s[k] = t})

\* C22: the reference peak-time sequence extractAllPeaks records is sorted
\* ascending, holds no missing value, and holds exactly the peak times of
\* the cell that are not missing, each as often as the cell does.
C22_ReferenceSortedNoNaN ==
    fout.kind = "peakTimes" =>
        /\ \A k \in 1..(Len(fout.peakTimes) - 1) :
               fout.peakTimes[k] <= fout.peakTimes[k + 1]
        /\ NaN \notin Range(fout.peakTimes)
        /\ \A t \in (Range(fin._peak_t) \cup Range(fout.peakTimes)) \ {NaN} :
               countOf(fout.peakTimes, t) = countOf(fin._peak_t, t)

\* the times came out of order and with a missing value among them
C22_Witness ==
    /\ fout.kind = "peakTimes"
    /\ NaN \in Range(fin._peak_t)
    /\ \E j, k \in 1..Len(fin._peak_t) :
           j < k /\ fin._peak_t[k] # NaN /\ fin._peak_t[j] > fin._peak_t[k]
    /\ Len(fout.peakTimes) >= 2

(***************************************************************************)
(* The parameters of the baseline estimator on their own:                  *)
(* setBaselineParams for every position of the two sliders.  The asymmetry *)
(* p is held in units of 10^-9.                                            *)
(***************************************************************************)
InitParams ==
    /\ self = InitSelf
    /\ op = "init"
    /\ fin \in {[kind |-> "sliders", auto_bs_lam_slider |-> l,
                 auto_bs_P_slider |-> p] :
                   l \in LamSliderMin..LamSliderMax,
                   p \in PSliderMin..PSliderMax}
    /\ fout = NoInput

SetBaselineParams ==
    /\ fin.kind = "sliders"
    /\ fout = NoInput
    /\ fout' = [kind |-> "params",
                auto_bs_lam |-> auto_bs_lam(fin.auto_bs_lam_slider),
                auto_bs_P |-> auto_bs_P(fin.auto_bs_P_slider)]
    /\ UNCHANGED <<self, op, fin>>

NextParams == SetBaselineParams

SpecParams == InitParams /\ [][NextParams]_vars

\* C23: for every position of the baseline sliders the asymmetry handed to
\* the baseline estimator satisfies 0 < p < 1 and the smoothness satisfies
\* lambda > 0.
C23_ParamsInRange ==
    fout.kind = "params" =>
        /\ 0 < fout.auto_bs_P
        /\ fout.auto_bs_P < One
        /\ fout.auto_bs_lam > 0

=============================================================================
